---- MODULE Spec2Model ----
(***************************************************************************)
(* Model of the regex crate: the recursive-descent parser of src/parse.rs  *)
(* (Parser::parse and the functions regex, term, factor, base, set_elem)   *)
(* and the FSM builder of src/compile.rs (compile, Compiler::compile,      *)
(* Compiler::allocating, Compiler::reserve_node_slot).                     *)
(*                                                                         *)
(* Characters are their code points.  An Option<char> is a sequence of     *)
(* length 0 (None) or 1 (Some(c)).  The recursion of the parser and of the *)
(* compiler is an explicit stack of frames; one action runs a function     *)
(* from one resume point to its next call, return or loop back-edge.       *)
(* A Rust panic (panic!, todo!, unwrap on None) is the result Panic.       *)
(***************************************************************************)
EXTENDS Integers, Sequences, FiniteSets

VARIABLES
    input,    \* parse: the pattern handed to Parser::parse (sequence of chars)
    pos,      \* parse: how many chars the Peekable<Chars> iterator has yielded
    stack,    \* parse: call stack of the recursive descent, innermost last
    ret,      \* parse: value just returned to the frame on top of the stack
    result,   \* parse: what Parser::parse gave the caller (NotYet while running)
    steps,    \* parse: number of parser steps taken so far
    ast,      \* compile: the Regex handed to compile
    nodes,    \* compile: Compiler.nodes, node i of the code is nodes[i + 1]
    cstack,   \* compile: call stack of Compiler::compile, innermost last
    cret,     \* compile: NodeIndex just returned to the frame on top
    fsm,      \* compile: what compile gave the caller (NotYet while running)
    call      \* builder: the last builder call made, with the arena before it

vars == <<input, pos, stack, ret, result, steps, ast, nodes, cstack, cret, fsm, call>>

(***************************************************************************)
(* Bounds of the model.                                                    *)
(***************************************************************************)
MaxLen == 3       \* patterns over the whole alphabet
MaxOpLen == 5     \* patterns over letters, '|' and '*'
MaxSetLen == 5    \* patterns over letters, '[', ']' and '-'
MaxItems == 2     \* items of a Sequence or Set handed to compile
MaxNodes == 4     \* arena size up to which the builder is driven

(***************************************************************************)
(* The characters the code names, and the letters of the patterns.         *)
(***************************************************************************)
LParen == 40
RParen == 41
Star == 42
Dash == 45
LBracket == 91
Backslash == 92
RBracket == 93
ChA == 97
ChD == 100
ChW == 119
Bar == 124

Letters == {ChA, ChD, ChW}
Alphabet == Letters \cup {LParen, RParen, Star, Dash, LBracket, Backslash, RBracket, Bar}
OpAlphabet == {ChA, ChD, Bar, Star}
SetAlphabet == {ChA, ChW, LBracket, RBracket, Dash}

StringsOver(A, n) == UNION {[1..k -> A] : k \in 0..n}
Patterns ==
    StringsOver(Alphabet, MaxLen) \cup StringsOver(OpAlphabet, MaxOpLen)
        \cup StringsOver(SetAlphabet, MaxSetLen)

(***************************************************************************)
(* enum Regex, enum Primitive (parse.rs).  A Range is the half-open        *)
(* std::ops::Range<char>: start..end.                                      *)
(***************************************************************************)
Choice(a, b) == <<"Choice", a, b>>
Sequence(items) == <<"Sequence", items>>
Repetition(inner) == <<"Repetition", inner>>
Set(elems) == <<"Set", elems>>
Range(start, end) == <<"Range", start, end>>
Primitive(p) == <<"Primitive", p>>
Char(c) == <<"Char", c>>

\* std::ops::Range::contains: start <= c < end
RangeContains(r, c) == r[2] <= c /\ c < r[3]

\* Result<Regex, ()> and the states around it
Ok(v) == <<"Ok", v>>
Err == <<"Err">>
Panic == <<"Panic">>
NotYet == <<"NotYet">>
None == <<>>
Some(c) == <<c>>

(***************************************************************************)
(* Parser                                                                  *)
(***************************************************************************)
\* Parser::peek
Peek == IF pos < Len(input) THEN Some(input[pos + 1]) ELSE None

\* Parser::next applied at position p of s: the item, and the position after
NextAt(s, p) == IF p < Len(s) THEN [item |-> Some(s[p + 1]), pos |-> p + 1]
                ELSE [item |-> None, pos |-> p]

Frame(fn, pc, local) == [fn |-> fn, pc |-> pc, local |-> local]
Top == stack[Len(stack)]
Below == SubSeq(stack, 1, Len(stack) - 1)
Running == result = NotYet /\ Len(stack) > 0
At(fn, pc) == Running /\ Top.fn = fn /\ Top.pc = pc

\* calling regex() runs it up to its call of term(), which is at its loop head
RegexCall == <<Frame("regex", "after_term", None), Frame("term", "loop", <<>>)>>
\* calling factor() runs it up to its call of base()
FactorCall == <<Frame("factor", "after_base", None), Frame("base", "match", None)>>

\* the function on top returns v to its caller; the outermost is Parser::parse
Return(v) ==
    /\ stack' = Below
    /\ ret' = IF Len(stack) = 1 THEN NotYet ELSE v
    /\ result' = IF Len(stack) = 1 THEN v ELSE result

\* the function on top goes on at pc with its local, calling `calls`
Continue(pc, local, calls) ==
    /\ stack' = Below \o <<Frame(Top.fn, pc, local)>> \o calls
    /\ ret' = NotYet
    /\ result' = result

Step == steps' = steps + 1 /\ UNCHANGED <<input, ast, nodes, cstack, cret, fsm, call>>

\* Parser::parse: build the parser and call regex()
Parse ==
    /\ result = NotYet /\ stack = <<>> /\ steps = 0
    /\ stack' = RegexCall
    /\ pos' = 0
    /\ UNCHANGED <<ret, result>>
    /\ Step

\* line 98: the lookahead at which the factor loop of term() breaks
TermEnds(peek) == peek \in {None, Some(RParen), Some(Bar)}

\* term(), loop head: break and return the Sequence, or call factor()
TermLoop ==
    /\ At("term", "loop")
    /\ IF TermEnds(Peek)
       THEN Return(Ok(Sequence(Top.local)))
       ELSE Continue("after_factor", Top.local, FactorCall)
    /\ UNCHANGED pos
    /\ Step

\* term(), `self.factor()?` returned: propagate Err, or push and loop
TermAfterFactor ==
    /\ At("term", "after_factor")
    /\ IF ret = Err
       THEN Return(Err)
       ELSE Continue("loop", Append(Top.local, ret[2]), <<>>)
    /\ UNCHANGED pos
    /\ Step

\* regex(), `self.term()?` returned: propagate Err, or on '|' consume it and
\* call regex() for the right-hand side, or return the term
RegexAfterTerm ==
    /\ At("regex", "after_term")
    /\ IF ret = Err
       THEN Return(Err) /\ UNCHANGED pos
       ELSE IF Peek = Some(Bar)
       THEN Continue("after_rhs", ret[2], RegexCall) /\ pos' = pos + 1
       ELSE Return(Ok(ret[2])) /\ UNCHANGED pos
    /\ Step

\* the operands of the Choice the wrong way round
MakeChoiceSwapped(term, rhs) == Choice(rhs, term)

\* line 87: the node built for term '|' rhs
MakeChoice(term, rhs) == Choice(term, rhs)

\* regex(), `self.regex()?` returned: propagate Err, or return the Choice
RegexAfterRhs ==
    /\ At("regex", "after_rhs")
    /\ IF ret = Err
       THEN Return(Err)
       ELSE Return(Ok(MakeChoice(Top.local, ret[2])))
    /\ UNCHANGED pos
    /\ Step

\* factor(), `self.base()?` returned: propagate Err, or enter the '*' loop
FactorAfterBase ==
    /\ At("factor", "after_base")
    /\ IF ret = Err
       THEN Return(Err)
       ELSE Continue("star_loop", ret[2], <<>>)
    /\ UNCHANGED pos
    /\ Step

\* a second '*' leaves the Repetition as it is
StarCollapse(base) == IF base[1] = "Repetition" THEN base ELSE Repetition(base)

\* line 113: what one '*' makes of the base read so far
StarWrap(base) == Repetition(base)

\* factor(), one test of `while let Some('*') = self.peek()`
FactorStar ==
    /\ At("factor", "star_loop")
    /\ IF Peek = Some(Star)
       THEN Continue("star_loop", StarWrap(Top.local), <<>>) /\ pos' = pos + 1
       ELSE Return(Ok(Top.local)) /\ UNCHANGED pos
    /\ Step

\* base(), arm Some('('): consume it and call regex()
BaseGroup ==
    /\ At("base", "match")
    /\ Peek = Some(LParen)
    /\ Continue("expect", None, RegexCall)
    /\ pos' = pos + 1
    /\ Step

\* expect(c): consume c, or panic!("handle this better")
ExpectOk(c) == Peek = Some(c)

\* base(), `self.regex()?` returned inside a group: propagate Err, or
\* expect(')') and return the inner regex
BaseAfterGroup ==
    /\ At("base", "expect")
    /\ IF ret = Err
       THEN Return(Err) /\ UNCHANGED pos
       ELSE IF ExpectOk(RParen)
       THEN Return(Ok(ret[2])) /\ pos' = pos + 1
       ELSE result' = Panic /\ UNCHANGED <<stack, ret, pos>>
    /\ Step

\* any escaped char but 'w' and 'd' is taken as a literal
EscapeLiteral(esc) ==
    IF esc = ChW THEN Ok(Primitive("Word"))
    ELSE IF esc = ChD THEN Ok(Primitive("Digit"))
    ELSE Ok(Char(esc))

\* lines 130-134: the result for the character esc after a backslash
Escape(esc) ==
    IF esc = ChW THEN Ok(Primitive("Word"))
    ELSE IF esc = ChD THEN Ok(Primitive("Digit"))
    ELSE Err

\* base(), arm Some('\\'): consume it, take the next char (Err if none)
BaseEscape ==
    /\ At("base", "match")
    /\ Peek = Some(Backslash)
    /\ LET n == NextAt(input, pos + 1) IN
         /\ pos' = n.pos
         /\ Return(IF n.item = None THEN Err ELSE Escape(n.item[1]))
    /\ Step

\* base(), arm Some('['): consume it and enter the element loop
BaseSet ==
    /\ At("base", "match")
    /\ Peek = Some(LBracket)
    /\ Continue("set_loop", <<>>, <<>>)
    /\ pos' = pos + 1
    /\ Step

\* the element is peeked at, never consumed
set_elem_peeking(s, p) ==
    IF p < Len(s) THEN [res |-> Ok(Char(s[p + 1])), pos |-> p]
    ELSE [res |-> Err, pos |-> p]

\* set_elem() at position p of s: the result, and the position after
set_elem(s, p) ==
    LET first == NextAt(s, p) IN
    IF first.item = None THEN [res |-> Err, pos |-> first.pos]
    ELSE IF first.pos < Len(s) /\ s[first.pos + 1] = Dash
    THEN LET second == NextAt(s, first.pos + 1) IN
         IF second.item = None THEN [res |-> Err, pos |-> second.pos]
         ELSE [res |-> Ok(Range(first.item[1], second.item[1])), pos |-> second.pos]
    ELSE [res |-> Ok(Char(first.item[1])), pos |-> first.pos]

\* base(), one test of `while self.peek() != Some(']')`: read an element
\* (propagating Err), or consume the ']' and return the Set
BaseSetLoop ==
    /\ At("base", "set_loop")
    /\ IF Peek # Some(RBracket)
       THEN LET e == set_elem(input, pos) IN
            /\ pos' = e.pos
            /\ IF e.res = Err
               THEN Return(Err)
               ELSE Continue("set_loop", Append(Top.local, e.res[2]), <<>>)
       ELSE /\ pos' = NextAt(input, pos).pos
            /\ Return(Ok(Set(Top.local)))
    /\ Step

\* base(), arms Some(char) and None: consume the char and return the literal;
\* with no char left, Err (term() never calls factor() there)
BaseChar ==
    /\ At("base", "match")
    /\ Peek \notin {Some(LParen), Some(Backslash), Some(LBracket)}
    /\ IF Peek = None
       THEN Return(Err) /\ UNCHANGED pos
       ELSE Return(Ok(Char(Peek[1]))) /\ pos' = pos + 1
    /\ Step

ParseInit ==
    /\ input \in Patterns
    /\ pos = 0
    /\ stack = <<>>
    /\ ret = NotYet
    /\ result = NotYet
    /\ steps = 0

ParseIdle ==
    /\ input = <<>>
    /\ pos = 0
    /\ stack = <<>>
    /\ ret = NotYet
    /\ result = NotYet
    /\ steps = 0

CompileIdle ==
    /\ ast = None
    /\ nodes = <<>>
    /\ cstack = <<>>
    /\ cret = None
    /\ fsm = NotYet
    /\ call = None

Init == ParseInit /\ CompileIdle

Next ==
    \/ Parse
    \/ TermLoop
    \/ TermAfterFactor
    \/ RegexAfterTerm
    \/ RegexAfterRhs
    \/ FactorAfterBase
    \/ FactorStar
    \/ BaseGroup
    \/ BaseAfterGroup
    \/ BaseEscape
    \/ BaseSet
    \/ BaseSetLoop
    \/ BaseChar

Spec == Init /\ [][Next]_vars

ParseDone == result # NotYet
ParsedOk == result[1] = "Ok"

(***************************************************************************)
(* Compiler (compile.rs)                                                   *)
(***************************************************************************)
\* enum TransitionType
TransitionRange(start, end) == <<"Range", start, end>>
TransitionPrimitive(p) == <<"Primitive", p>>
TransitionChar(c) == <<"Char", c>>
Always == <<"Always">>

\* struct Transition, struct Node, Node::default()
Transition(target, condition) == [target_node |-> target, condition |-> condition]
Node(end, transitions) == [end |-> end, transitions |-> transitions]
DefaultNode == Node(FALSE, <<>>)

\* Compiler::reserve_node_slot on the arena ns: the arena after, and the index
reserve_node_slot(ns) == [nodes |-> Append(ns, DefaultNode), index |-> Len(ns)]

\* the transition aims at nodes.len(), one past the slot reserved
allocating_past(ns, node_before, condition) ==
    LET slot == Append(ns, DefaultNode)
    IN  IF node_before < Len(slot)
        THEN [nodes |-> [slot EXCEPT ![node_before + 1].transitions =
                            Append(@, Transition(Len(slot), condition))],
              index |-> Len(ns),
              ok |-> TRUE]
        ELSE [nodes |-> slot, index |-> Len(ns), ok |-> FALSE]

\* Compiler::allocating on the arena ns, with the condition its closure gives
\* (the closures of compile() leave the new node as Node::default()): the
\* arena after, the index returned, and whether get_mut(node_before) was Some
allocating(ns, node_before, condition) ==
    LET slot == reserve_node_slot(ns)
        filled == [slot.nodes EXCEPT ![slot.index + 1] = DefaultNode]
    IN  IF node_before < Len(filled)
        THEN [nodes |-> [filled EXCEPT ![node_before + 1].transitions =
                            Append(@, Transition(slot.index, condition))],
              index |-> slot.index,
              ok |-> TRUE]
        ELSE [nodes |-> filled, index |-> slot.index, ok |-> FALSE]

\* lines 102-105: parse::Primitive to compile::Primitive
CompilePrimitiveOf(p) == IF p = "Word" THEN "Word" ELSE "Digit"

CFrame(regex, node_before, pc) == [regex |-> regex, node_before |-> node_before, pc |-> pc]
CTop == cstack[Len(cstack)]
CBelow == SubSeq(cstack, 1, Len(cstack) - 1)
Compiling == fsm = NotYet /\ Len(cstack) > 0
CAt(kinds, pc) == Compiling /\ CTop.pc = pc /\ CTop.regex[1] \in kinds

CStep == UNCHANGED <<input, pos, stack, ret, result, steps, ast, call>>

\* Compiler::compile returns index; the outermost call is the one of compile(),
\* which drops the index and returns RegexFsm { nodes }
CReturn(ns, index) ==
    /\ nodes' = ns
    /\ cstack' = CBelow
    /\ cret' = IF Len(cstack) = 1 THEN None ELSE Some(index)
    /\ fsm' = IF Len(cstack) = 1 THEN Ok(ns) ELSE fsm

\* compile(): Compiler::default(), reserve the start node, call compile(regex, 0)
Compile ==
    /\ fsm = NotYet /\ cstack = <<>> /\ nodes = <<>>
    /\ nodes' = reserve_node_slot(<<>>).nodes
    /\ cstack' = <<CFrame(ast, 0, "match")>>
    /\ UNCHANGED <<cret, fsm>>
    /\ CStep

\* the todo!() of an arm
Todo == fsm' = Panic /\ UNCHANGED <<nodes, cstack, cret>>

\* Compiler::compile, arm Regex::Char
CompileChar ==
    /\ CAt({"Char"}, "match")
    /\ LET a == allocating(nodes, CTop.node_before, TransitionChar(CTop.regex[2])) IN
         IF a.ok THEN CReturn(a.nodes, a.index)
         ELSE nodes' = a.nodes /\ fsm' = Panic /\ UNCHANGED <<cstack, cret>>
    /\ CStep

\* Compiler::compile, arm Regex::Primitive
CompilePrimitive ==
    /\ CAt({"Primitive"}, "match")
    /\ LET a == allocating(nodes, CTop.node_before,
                           TransitionPrimitive(CompilePrimitiveOf(CTop.regex[2]))) IN
         IF a.ok THEN CReturn(a.nodes, a.index)
         ELSE nodes' = a.nodes /\ fsm' = Panic /\ UNCHANGED <<cstack, cret>>
    /\ CStep

\* Compiler::compile, arm Regex::Sequence: compile the first term from node 0
\* if there is one; with no term, straight on to the todo!()
CompileSequence ==
    /\ CAt({"Sequence"}, "match")
    /\ IF CTop.regex[2] # <<>>
       THEN /\ cstack' = CBelow \o <<CFrame(CTop.regex, CTop.node_before, "after_first"),
                                     CFrame(CTop.regex[2][1], 0, "match")>>
            /\ UNCHANGED <<nodes, cret, fsm>>
       ELSE Todo
    /\ CStep

\* Compiler::compile, arm Regex::Sequence after the first term: todo!()
CompileSequenceRest ==
    /\ CAt({"Sequence"}, "after_first")
    /\ Todo
    /\ CStep

\* Compiler::compile, arms Choice, Repetition, Set, Range: todo!()
CompileTodo ==
    /\ CAt({"Choice", "Repetition", "Set", "Range"}, "match")
    /\ Todo
    /\ CStep

\* the trees handed to compile: leaves, one level of every variant above them,
\* and a Sequence around each of those
Leaves ==
    {Char(c) : c \in Letters} \cup {Primitive(p) : p \in {"Word", "Digit"}}
SetElems ==
    {Char(c) : c \in Letters} \cup {Range(a, b) : a \in {ChA}, b \in {ChD, ChW}}
Level1 ==
    Leaves
        \cup {Sequence(v) : v \in StringsOver(Leaves, MaxItems)}
        \cup {Choice(a, b) : a \in Leaves, b \in Leaves}
        \cup {Repetition(a) : a \in Leaves}
        \cup {Set(v) : v \in StringsOver(SetElems, MaxItems)}
        \cup {Range(ChA, ChW)}
Asts == Level1 \cup {Sequence(<<a>>) : a \in Level1}

CompileInit ==
    /\ ParseIdle
    /\ ast \in Asts
    /\ nodes = <<>>
    /\ cstack = <<>>
    /\ cret = None
    /\ fsm = NotYet
    /\ call = None

CompileNext ==
    \/ Compile
    \/ CompileChar
    \/ CompilePrimitive
    \/ CompileSequence
    \/ CompileSequenceRest
    \/ CompileTodo

CompileSpec == CompileInit /\ [][CompileNext]_vars

(***************************************************************************)
(* The builder on its own: Compiler::default() and then any calls of       *)
(* reserve_node_slot and allocating, as long as the arena is small.        *)
(***************************************************************************)
Conditions == {TransitionChar(ChA), TransitionPrimitive("Word")}

BStep == UNCHANGED <<input, pos, stack, ret, result, steps, ast, cstack, cret>>

BuilderReserve ==
    /\ fsm = NotYet /\ Len(nodes) < MaxNodes
    /\ LET r == reserve_node_slot(nodes) IN
         /\ nodes' = r.nodes
         /\ call' = [op |-> "reserve_node_slot", before |-> nodes, returned |-> r.index]
    /\ UNCHANGED fsm
    /\ BStep

\* node_before is any index up to one past the slot the call itself reserves;
\* past it get_mut(node_before).unwrap() panics
BuilderAllocating ==
    /\ fsm = NotYet /\ Len(nodes) < MaxNodes
    /\ \E node_before \in 0..(Len(nodes) + 1), condition \in Conditions :
         LET a == allocating(nodes, node_before, condition) IN
           /\ nodes' = a.nodes
           /\ fsm' = IF a.ok THEN fsm ELSE Panic
           /\ call' = [op |-> "allocating", before |-> nodes, returned |-> a.index,
                       node_before |-> node_before, condition |-> condition]
    /\ BStep

BuilderInit ==
    /\ ParseIdle
    /\ ast = None
    /\ nodes = <<>>
    /\ cstack = <<>>
    /\ cret = None
    /\ fsm = NotYet
    /\ call = None

BuilderNext == BuilderReserve \/ BuilderAllocating

BuilderSpec == BuilderInit /\ [][BuilderNext]_vars

(***************************************************************************)
(* Properties of the parser                                                *)
(***************************************************************************)
OnlyOver(A) == \A i \in 1..Len(input) : input[i] \in A
Count(c) == Cardinality({i \in 1..Len(input) : input[i] = c})

RECURSIVE Nest(_, _)
\* n Repetitions around b
Nest(b, n) == IF n = 0 THEN b ELSE Repetition(Nest(b, n - 1))

RECURSIVE StarsAt(_, _)
\* how many '*' stand in a row in s from index i on
StarsAt(s, i) == IF i <= Len(s) /\ s[i] = Star THEN 1 + StarsAt(s, i + 1) ELSE 0

RECURSIVE RefFactors(_)
\* a '|'-free, group-free stretch read as factors: a char and the stars after it
RefFactors(s) ==
    IF s = <<>> THEN <<>>
    ELSE LET n == StarsAt(s, 2) IN
         <<Nest(Char(s[1]), n)>> \o RefFactors(SubSeq(s, n + 2, Len(s)))

RECURSIVE FirstBar(_, _)
\* index of the first '|' of s at or after i, 0 if there is none
FirstBar(s, i) ==
    IF i > Len(s) THEN 0 ELSE IF s[i] = Bar THEN i ELSE FirstBar(s, i + 1)

RECURSIVE RefRegex(_)
\* the tree the grammar's precedence gives a pattern of letters, '|' and '*':
\* split at the first '|', the left side one Sequence, the rest to the right
RefRegex(s) ==
    LET i == FirstBar(s, 1) IN
    IF i = 0 THEN Sequence(RefFactors(s))
    ELSE Choice(Sequence(RefFactors(SubSeq(s, 1, i - 1))),
                RefRegex(SubSeq(s, i + 1, Len(s))))

RECURSIVE RegexShape(_), FactorShape(_)
\* what regex() can return: a Sequence of factors, or a Choice whose left is
\* a Sequence of factors and whose right is again what regex() returns
RegexShape(r) ==
    \/ r[1] = "Sequence" /\ \A i \in 1..Len(r[2]) : FactorShape(r[2][i])
    \/ r[1] = "Choice" /\ r[2][1] = "Sequence" /\ RegexShape(r[2]) /\ RegexShape(r[3])
\* what factor() can return: Repetitions around a base; a base is a literal,
\* a primitive, a set or a parenthesised regex
FactorShape(f) ==
    \/ f[1] \in {"Char", "Primitive", "Set"}
    \/ f[1] = "Repetition" /\ FactorShape(f[2])
    \/ f[1] \in {"Sequence", "Choice"} /\ RegexShape(f)

RECURSIVE RepCount(_)
\* number of Repetition nodes of a tree
RepCount(r) ==
    IF r[1] = "Repetition" THEN 1 + RepCount(r[2])
    ELSE IF r[1] = "Choice" THEN RepCount(r[2]) + RepCount(r[3])
    ELSE IF r[1] = "Sequence" /\ r[2] # <<>>
    THEN RepCount(r[2][1]) + RepCount(Sequence(Tail(r[2])))
    ELSE 0

RECURSIVE NestedRep(_)
\* some Repetition of the tree stands directly inside a Repetition
NestedRep(r) ==
    IF r[1] = "Repetition" THEN r[2][1] = "Repetition" \/ NestedRep(r[2])
    ELSE IF r[1] = "Choice" THEN NestedRep(r[2]) \/ NestedRep(r[3])
    ELSE IF r[1] = "Sequence" THEN \E i \in 1..Len(r[2]) : NestedRep(r[2][i])
    ELSE FALSE

RECURSIVE RangesOf(_)
\* the Range nodes of a tree
RangesOf(r) ==
    IF r[1] = "Range" THEN {r}
    ELSE IF r[1] = "Repetition" THEN RangesOf(r[2])
    ELSE IF r[1] = "Choice" THEN RangesOf(r[2]) \cup RangesOf(r[3])
    ELSE IF r[1] \in {"Sequence", "Set"}
    THEN UNION {RangesOf(r[2][i]) : i \in 1..Len(r[2])}
    ELSE {}

\* C1: Parser::parse never panics: every pattern, also one that ends inside an
\* open group, set or escape, is answered with Ok or Err.
C1_ParseNeverPanics == result # Panic

\* C4: no partial success: when Parser::parse returns Ok the whole pattern has
\* been consumed.
C4_OkConsumesAll == ParsedOk => pos = Len(input)

\* C5: the tree encodes the precedence of the grammar: every Ok result has the
\* shape Choice(Sequence, Choice(Sequence, ...)) with Repetitions around single
\* bases, and a pattern of letters, '|' and '*' parses to the tree got by
\* splitting at the first '|' and reading each side as chars with their stars.
C5_Precedence ==
    ParsedOk =>
        /\ RegexShape(result[2])
        /\ OnlyOver(OpAlphabet) => result[2] = RefRegex(input)

\* witness of C5: a|d*| parsed to Choice([a], Choice([d*], []))
C5_Witness ==
    /\ input = <<ChA, Bar, ChD, Star, Bar>>
    /\ result = Ok(Choice(Sequence(<<Char(ChA)>>),
                   Choice(Sequence(<<Repetition(Char(ChD))>>), Sequence(<<>>))))

C7_RangeInclusive ==
    ParsedOk =>
        \A r \in RangesOf(result[2]) : \A c \in r[2]..r[3] : RangeContains(r, c)

\* C8 as claimed: stars collapse, no Repetition stands directly in a Repetition.
C8_StarsCollapse == ParsedOk => ~NestedRep(result[2])

\* C8 as amended: every '*' read as an operator adds one Repetition: a char
\* followed by n stars parses to n Repetitions nested around it, and a pattern
\* of letters and stars has as many Repetition nodes as it has stars after
\* its first char (a star that opens the pattern is the literal Char('*')).
C8_StarsNest ==
    (ParsedOk /\ OnlyOver(Letters \cup {Star}) /\ Len(input) >= 1) =>
        /\ RepCount(result[2]) = Count(Star) - (IF input[1] = Star THEN 1 ELSE 0)
        /\ StarsAt(input, 2) = Len(input) - 1 =>
               result[2] = Sequence(<<Nest(Char(input[1]), Len(input) - 1)>>)

\* witness of C8: a** parsed to Repetition(Repetition(a))
C8_Witness ==
    /\ input = <<ChA, Star, Star>>
    /\ result = Ok(Sequence(<<Repetition(Repetition(Char(ChA)))>>))

\* C10: the parser terminates without backtracking: the read position never
\* moves back nor past the end; the steps taken are bounded by the chars
\* consumed, at most six per char and three more, so that every iteration of
\* the loops of term, factor and base consumes a char or ends the parse; and
\* a parse that has not returned can always take a step.
C10_Terminates ==
    /\ [](pos <= Len(input) /\ steps <= 6 * pos + 3)
    /\ [](ParseDone \/ ENABLED Next)
    /\ [][pos' >= pos]_vars

\* witness of C10: a set with a range and a char was read to its end
C10_Witness ==
    /\ input = <<LBracket, ChA, Dash, ChW, RBracket>>
    /\ result = Ok(Sequence(<<Set(<<Range(ChA, ChW)>>)>>))
    /\ pos = 5

(***************************************************************************)
(* Properties of the compiler                                              *)
(***************************************************************************)
CompileDone == fsm # NotYet

\* C2: compile is total: whatever tree it is given, it does not panic.
C2_CompileTotal == fsm # Panic

\* C3: Char(c) as the whole pattern compiles to two nodes: node 0, not accept,
\* with the one transition Char(c) to node 1; node 1, accept, no transitions.
C3_SingleChar ==
    (CompileDone /\ ast[1] = "Char") =>
        fsm = Ok(<<Node(FALSE, <<Transition(1, TransitionChar(ast[2]))>>),
                   Node(TRUE, <<>>)>>)

TargetsValid(ns) ==
    \A i \in 1..Len(ns) : \A t \in 1..Len(ns[i].transitions) :
        ns[i].transitions[t].target_node < Len(ns)

\* C9: the arena never holds a dangling reference: every target_node is below
\* the number of nodes; reserve_node_slot appends one default node and returns
\* its index; allocating with an existing node_before appends one default node,
\* appends to node_before's transitions the one transition to the new node, and
\* leaves every other node, and node_before's flag and older transitions, as
\* they were.
C9_NoDangling ==
    /\ TargetsValid(nodes)
    /\ call # None =>
        /\ call.returned = Len(call.before)
        /\ call.op = "reserve_node_slot" => nodes = Append(call.before, DefaultNode)
        /\ (call.op = "allocating" /\ call.node_before < Len(call.before)) =>
            /\ fsm = NotYet
            /\ Len(nodes) = Len(call.before) + 1
            /\ nodes[Len(nodes)] = DefaultNode
            /\ \A i \in 1..Len(call.before) :
                   IF i = call.node_before + 1
                   THEN nodes[i] = Node(call.before[i].end,
                            Append(call.before[i].transitions,
                                   Transition(call.returned, call.condition)))
                   ELSE nodes[i] = call.before[i]

\* witness of C9: an allocating call from node 1 of a three-node arena
C9_Witness ==
    /\ call # None
    /\ call.op = "allocating"
    /\ Len(call.before) = 3
    /\ call.node_before = 1
    /\ call.before[1].transitions # <<>>
    /\ Len(nodes) = 4
====
